---- MODULE Spec2Model ----
(***************************************************************************)
(* Model of vision_meal_analyzer.py: the pure functions calculate_totals   *)
(* and generate_chatbot_response, the resolver get_nutrition_data with its *)
(* fallback, and the orchestrator main as a sequential state machine.      *)
(*                                                                         *)
(* Python values are modelled as follows.                                  *)
(*   number  : [t |-> "int" | "float", v |-> Nat].  An int is exact; a     *)
(*             float carries Prec significant bits and every float result  *)
(*             is rounded to nearest, ties to even (IEEE 754, with the     *)
(*             53 bits of a double scaled down to Prec).                   *)
(*   None    : [kind |-> "null"]                                           *)
(*   dict    : [kind |-> "dict", d |-> function from keys to numbers]      *)
(*   str     : a sequence of text fragments whose concatenation is the     *)
(*             string                                                      *)
(*   a call  : [exc |-> exception name or "none", ret |-> returned value]  *)
(***************************************************************************)
EXTENDS Integers, Sequences, FiniteSets, TLC

VARIABLES
    pc,                 \* position of main
    model,              \* main's local `model`
    image_path,         \* main's local `image_path`
    ingredients_with_quantities, \* main's local, a dict in insertion order
    nutrition_data,     \* main's local list
    idx,                \* position of the for loop over the mapping's items
    data,               \* main's local `data` inside the loop
    totals,             \* main's local `totals`
    health_assessment,  \* main's local `health_assessment`
    stdout,             \* what print has written
    failure,            \* the step that raised, and the uncaught exception
    requests,           \* history: the HTTP requests sent, in order
    replies,            \* history: the reply to each request, in order
    estimated,          \* history: loop positions the estimator was called for
    trace,              \* history: the steps completed, in order
    call_args,          \* unit harness: arguments of a direct call
    call_ret            \* unit harness: function called and what it returned

vars == <<pc, model, image_path, ingredients_with_quantities, nutrition_data,
          idx, data, totals, health_assessment, stdout, failure, requests,
          replies, estimated, trace, call_args, call_ret>>

main_vars == <<pc, model, image_path, ingredients_with_quantities,
               nutrition_data, idx, data, totals, health_assessment, stdout,
               failure, requests, replies, estimated, trace>>

(***************************************************************************)
(* Bounds                                                                  *)
(***************************************************************************)
\* longest list handed to calculate_totals by the unit harness
MaxLen == 3
\* significant bits of a float (53 for a Python float)
Prec == 10

(***************************************************************************)
(* Python values                                                           *)
(***************************************************************************)
PyInt(n) == [t |-> "int", v |-> n]
PyFloat(n) == [t |-> "float", v |-> n]

None == [kind |-> "null"]
Dict(d) == [kind |-> "dict", d |-> d]
EmptyDict == [k \in {} |-> PyInt(0)]

Returns(x) == [exc |-> "none", ret |-> x]
Raises(e) == [exc |-> e, ret |-> None]

\* bool(x) for the values that occur: None and {} are false
Truthy(x) == x.kind = "dict" /\ DOMAIN x.d # {}

RECURSIVE Pow2(_)
Pow2(n) == IF n = 0 THEN 1 ELSE 2 * Pow2(n - 1)

RECURSIVE BitLen(_)
BitLen(n) == IF n = 0 THEN 0 ELSE 1 + BitLen(n \div 2)

\* n rounded to Prec significant bits, to nearest, ties to even
Round(n) ==
    IF BitLen(n) <= Prec THEN n
    ELSE LET s == BitLen(n) - Prec
             q == n \div Pow2(s)
             r == n % Pow2(s)
             half == Pow2(s - 1)
             up == r > half \/ (r = half /\ q % 2 = 1)
         IN (IF up THEN q + 1 ELSE q) * Pow2(s)

\* float(x)
ToFloat(x) == IF x.t = "int" THEN Round(x.v) ELSE x.v

\* a + b on numbers: int + int is exact, anything else is a float addition
Add(a, b) ==
    IF a.t = "int" /\ b.t = "int" THEN PyInt(a.v + b.v)
    ELSE PyFloat(Round(ToFloat(a) + ToFloat(b)))

\* str(x) of a number, as an f-string formats it
Str(x) == IF x.t = "int" THEN ToString(x.v) ELSE ToString(x.v) \o ".0"

(***************************************************************************)
(* Data of the program                                                     *)
(***************************************************************************)
Fields == {"calories", "protein_g", "fat_g", "carbs_g"}

Record(c, p, f, g) ==
    Dict([calories |-> c, protein_g |-> p, fat_g |-> f, carbs_g |-> g])

\* analyze_image's hard-coded mapping, as (key, value) items in insertion order
Ingredients ==
    << <<"chicken breast", "200g">>, <<"broccoli", "150g">>,
       <<"olive oil", "1 tbsp">> >>

\* what estimate_macronutrients_with_vision_model returns
estimate_macronutrients_with_vision_model(m, ingredient, quantity) ==
    Record(PyInt(250), PyInt(30), PyInt(8), PyInt(5))

\* what assess_healthiness_and_alternatives returns
assess_healthiness_and_alternatives(m, t) ==
    [is_healthy |-> FALSE,
     suggestions |-> <<"Use grilled tofu instead of chicken",
                       "Reduce olive oil to 1 tsp">>]

(***************************************************************************)
(* calculate_totals                                                        *)
(***************************************************************************)
ZeroTotals ==
    [calories |-> PyInt(0), protein_g |-> PyInt(0), fat_g |-> PyInt(0),
     carbs_g |-> PyInt(0)]

\* mutant: no `if data:` guard, every entry is subscripted
accumulate_unguarded(t, x) ==
    IF x.kind # "dict" THEN Raises("TypeError")
    ELSE IF ~(Fields \subseteq DOMAIN x.d) THEN Raises("KeyError")
    ELSE Returns([k \in Fields |-> Add(t[k], x.d[k])])

\* mutant: fat_g is assigned (=) instead of accumulated (+=)
accumulate_assign(t, x) ==
    IF ~Truthy(x) THEN Returns(t)
    ELSE IF ~(Fields \subseteq DOMAIN x.d) THEN Raises("KeyError")
    ELSE Returns([k \in Fields |->
                    IF k = "fat_g" THEN x.d[k] ELSE Add(t[k], x.d[k])])

\* mutant: protein is added into the calories total
accumulate_wrong_field(t, x) ==
    IF ~Truthy(x) THEN Returns(t)
    ELSE IF ~(Fields \subseteq DOMAIN x.d) THEN Raises("KeyError")
    ELSE Returns([k \in Fields |->
                    IF k = "calories" THEN Add(t[k], x.d["protein_g"])
                    ELSE Add(t[k], x.d[k])])

\* one pass of the loop body: a falsy entry is skipped, a dict is subscripted
\* with each of the four keys and added to the running totals
accumulate(t, x) ==
    IF ~Truthy(x) THEN Returns(t)
    ELSE IF ~(Fields \subseteq DOMAIN x.d) THEN Raises("KeyError")
    ELSE Returns([k \in Fields |-> Add(t[k], x.d[k])])

RECURSIVE totals_loop(_, _, _)
totals_loop(lst, i, t) ==
    IF i > Len(lst) THEN Returns(t)
    ELSE LET r == accumulate(t, lst[i])
         IN IF r.exc # "none" THEN r ELSE totals_loop(lst, i + 1, r.ret)

calculate_totals(nutrition_data_list) ==
    totals_loop(nutrition_data_list, 1, ZeroTotals)

(***************************************************************************)
(* generate_chatbot_response                                               *)
(***************************************************************************)
Min(a, b) == IF a < b THEN a ELSE b

\* sep.join(strs)
RECURSIVE Join(_, _)
Join(sep, strs) ==
    IF Len(strs) = 0 THEN << >>
    ELSE IF Len(strs) = 1 THEN <<strs[1]>>
    ELSE <<strs[1], sep>> \o Join(sep, Tail(strs))

\* the name summarize_nutrition is bound nowhere in the program: evaluating
\* it raises NameError
summarize_nutrition(name, quantity, x) == Raises("NameError")

TotalsBlock(t) ==
    <<"\n**Total Macronutrients**:\n- Calories: ", Str(t.calories), " kcal\n",
      "- Protein: ", Str(t.protein_g), "g\n- Fat: ", Str(t.fat_g), "g\n",
      "- Carbs: ", Str(t.carbs_g), "g\n\n">>

Verdict(ha) ==
    IF ~ha.is_healthy
    THEN <<"This meal is **", "unhealthy",
           "**. Here are some healthier alternatives:\n">>
         \o Join("\n", ha.suggestions) \o <<"\n">>
    ELSE <<"This meal is **", "healthy", "**. Great choice!\n">>

\* zip stops at the shorter input; the first pass of the loop evaluates
\* summarize_nutrition
generate_chatbot_response(ingredients, nd, t, ha) ==
    IF Min(Len(ingredients), Len(nd)) > 0
    THEN summarize_nutrition(ingredients[1][1], ingredients[1][2], nd[1])
    ELSE Returns(<<"Here's the analysis of your meal:\n\n">> \o TotalsBlock(t)
                 \o Verdict(ha))

(***************************************************************************)
(* get_nutrition_data                                                      *)
(***************************************************************************)
\* the query string of the request body
Query(ingredient, quantity) == quantity \o " of " \o ingredient

\* the payload the lookup service documents for a successful query: a dict
\* with the single key "foods" (its value is never read by the program)
FoodsPayload == Dict([foods |-> PyInt(1)])

\* response bodies: JSON texts and one text that is not JSON
Bodies ==
    { [is_json |-> TRUE, value |-> Record(PyInt(50), PyInt(4), PyInt(0), PyInt(10))],
      [is_json |-> TRUE, value |-> Record(PyInt(120), PyInt(0), PyInt(14), PyInt(0))],
      [is_json |-> TRUE, value |-> FoodsPayload],
      [is_json |-> TRUE, value |-> Dict(EmptyDict)],
      [is_json |-> TRUE, value |-> None],
      [is_json |-> FALSE, value |-> None] }

\* what requests.post does: raise on a network failure, or return a response
Replies ==
    { [sent |-> FALSE, status_code |-> 0, body |-> [is_json |-> FALSE, value |-> None]] }
    \cup { [sent |-> TRUE, status_code |-> s, body |-> b] :
             s \in {200, 404, 500}, b \in Bodies }

\* response.json()
json(response) ==
    IF response.body.is_json THEN Returns(response.body.value)
    ELSE Raises("JSONDecodeError")

\* mutant: a non-200 status raises, as raise_for_status would
get_nutrition_data_raising(reply) ==
    IF ~reply.sent THEN Raises("ConnectionError")
    ELSE IF reply.status_code = 200 THEN json(reply)
    ELSE Raises("HTTPError")

\* the part of get_nutrition_data after the request is sent: `reply` is the
\* outcome of requests.post
get_nutrition_data(reply) ==
    IF ~reply.sent THEN Raises("ConnectionError")
    ELSE IF reply.status_code = 200 THEN json(reply)
    ELSE Returns(None)

(***************************************************************************)
(* main                                                                    *)
(***************************************************************************)
NoFailure == [step |-> "none", exc |-> "none"]
NoCall == [fn |-> "none"]

ImagePaths == {"meal.jpg", "missing.jpg"}
Decodable(path) == path = "meal.jpg"

Init ==
    /\ pc = "load_vision_model"
    /\ model = None
    /\ image_path = ""
    /\ ingredients_with_quantities = << >>
    /\ nutrition_data = << >>
    /\ idx = 0
    /\ data = None
    /\ totals = ZeroTotals
    /\ health_assessment = [is_healthy |-> TRUE, suggestions |-> << >>]
    /\ stdout = << >>
    /\ failure = NoFailure
    /\ requests = << >>
    /\ replies = << >>
    /\ estimated = << >>
    /\ trace = << >>
    /\ call_args = NoCall
    /\ call_ret = NoCall

\* an uncaught exception leaves main: the process ends
Fail(step, exc) ==
    /\ failure' = [step |-> step, exc |-> exc]
    /\ pc' = "terminated"

\* mutant: a failed load is swallowed and main goes on without a model
LoadModel_swallow ==
    /\ pc = "load_vision_model"
    /\ \E ok \in BOOLEAN :
         IF ok
         THEN /\ model' = Dict([loaded |-> PyInt(1)])
              /\ pc' = "input"
              /\ trace' = Append(trace, "load_vision_model")
              /\ UNCHANGED failure
         ELSE /\ failure' = [step |-> "load_vision_model", exc |-> "FileNotFoundError"]
              /\ pc' = "input"
              /\ UNCHANGED <<model, trace>>
    /\ UNCHANGED <<image_path, ingredients_with_quantities, nutrition_data,
                   idx, data, totals, health_assessment, stdout, requests,
                   replies, estimated, call_args, call_ret>>

\* line 117: model = load_vision_model()
LoadModel ==
    /\ pc = "load_vision_model"
    /\ \E ok \in BOOLEAN :
         IF ok
         THEN /\ model' = Dict([loaded |-> PyInt(1)])
              /\ pc' = "input"
              /\ trace' = Append(trace, "load_vision_model")
              /\ UNCHANGED failure
         ELSE /\ Fail("load_vision_model", "FileNotFoundError")
              /\ UNCHANGED <<model, trace>>
    /\ UNCHANGED <<image_path, ingredients_with_quantities, nutrition_data,
                   idx, data, totals, health_assessment, stdout, requests,
                   replies, estimated, call_args, call_ret>>

\* line 118: image_path = input(...)
ReadImagePath ==
    /\ pc = "input"
    /\ \E path \in ImagePaths : image_path' = path
    /\ pc' = "analyze_image"
    /\ trace' = Append(trace, "input")
    /\ UNCHANGED <<model, ingredients_with_quantities, nutrition_data, idx,
                   data, totals, health_assessment, stdout, failure, requests,
                   replies, estimated, call_args, call_ret>>

\* lines 119-120: analyze_image (preprocess_image, then the forward pass),
\* nutrition_data = [] and the start of the for loop
AnalyzeImage ==
    /\ pc = "analyze_image"
    /\ \E inference_ok \in BOOLEAN :
         IF ~Decodable(image_path)
         THEN /\ Fail("preprocess_image", "FileNotFoundError")
              /\ UNCHANGED <<ingredients_with_quantities, idx, trace>>
         ELSE IF ~inference_ok
         THEN /\ Fail("analyze_image", "RuntimeError")
              /\ UNCHANGED <<ingredients_with_quantities, idx, trace>>
         ELSE /\ ingredients_with_quantities' = Ingredients
              /\ idx' = 1
              /\ pc' = IF Len(Ingredients) >= 1 THEN "get_nutrition_data"
                       ELSE "calculate_totals"
              /\ trace' = Append(trace, "analyze_image")
              /\ UNCHANGED failure
    /\ nutrition_data' = << >>
    /\ UNCHANGED <<model, image_path, data, totals, health_assessment, stdout,
                   requests, replies, estimated, call_args, call_ret>>

\* line 122: data = get_nutrition_data(ingredient, quantity): one POST
GetNutritionData ==
    /\ pc = "get_nutrition_data"
    /\ \E reply \in Replies :
         LET item == ingredients_with_quantities[idx]
             r == get_nutrition_data(reply)
         IN /\ requests' = Append(requests,
                                  [pos |-> idx, query |-> Query(item[1], item[2])])
            /\ replies' = Append(replies, reply)
            /\ IF r.exc # "none"
               THEN /\ Fail("get_nutrition_data", r.exc)
                    /\ UNCHANGED <<data, trace>>
               ELSE /\ data' = r.ret
                    /\ pc' = "fallback"
                    /\ trace' = Append(trace, "get_nutrition_data")
                    /\ UNCHANGED failure
    /\ UNCHANGED <<model, image_path, ingredients_with_quantities,
                   nutrition_data, idx, totals, health_assessment, stdout,
                   estimated, call_args, call_ret>>

\* mutant: the value of the lookup is appended as it is, without the fallback
FallbackAndAppend_no_fallback ==
    /\ pc = "fallback"
    /\ nutrition_data' = Append(nutrition_data, data)
    /\ idx' = idx + 1
    /\ pc' = IF idx < Len(ingredients_with_quantities) THEN "get_nutrition_data"
             ELSE "calculate_totals"
    /\ trace' = Append(trace, "append")
    /\ UNCHANGED <<model, image_path, ingredients_with_quantities, data, totals,
                   health_assessment, stdout, failure, requests, replies,
                   estimated, call_args, call_ret>>

\* lines 123-125: `if not data` calls the estimator; data is appended; the
\* loop goes to the next item or ends
FallbackAndAppend ==
    /\ pc = "fallback"
    /\ LET item == ingredients_with_quantities[idx]
           d == IF ~Truthy(data)
                THEN estimate_macronutrients_with_vision_model(model, item[1], item[2])
                ELSE data
       IN /\ data' = d
          /\ nutrition_data' = Append(nutrition_data, d)
          /\ estimated' = IF ~Truthy(data) THEN Append(estimated, idx)
                          ELSE estimated
    /\ idx' = idx + 1
    /\ pc' = IF idx < Len(ingredients_with_quantities) THEN "get_nutrition_data"
             ELSE "calculate_totals"
    /\ trace' = Append(trace, "append")
    /\ UNCHANGED <<model, image_path, ingredients_with_quantities, totals,
                   health_assessment, stdout, failure, requests, replies,
                   call_args, call_ret>>

\* line 126: totals = calculate_totals(nutrition_data)
CalculateTotals ==
    /\ pc = "calculate_totals"
    /\ LET r == calculate_totals(nutrition_data)
       IN IF r.exc # "none"
          THEN /\ Fail("calculate_totals", r.exc)
               /\ UNCHANGED <<totals, trace>>
          ELSE /\ totals' = r.ret
               /\ pc' = "assess_healthiness_and_alternatives"
               /\ trace' = Append(trace, "calculate_totals")
               /\ UNCHANGED failure
    /\ UNCHANGED <<model, image_path, ingredients_with_quantities,
                   nutrition_data, idx, data, health_assessment, stdout,
                   requests, replies, estimated, call_args, call_ret>>

\* line 127: health_assessment = assess_healthiness_and_alternatives(...)
AssessHealth ==
    /\ pc = "assess_healthiness_and_alternatives"
    /\ health_assessment' = assess_healthiness_and_alternatives(model, totals)
    /\ pc' = "generate_chatbot_response"
    /\ trace' = Append(trace, "assess_healthiness_and_alternatives")
    /\ UNCHANGED <<model, image_path, ingredients_with_quantities,
                   nutrition_data, idx, data, totals, stdout, failure,
                   requests, replies, estimated, call_args, call_ret>>

\* lines 128-129: response = generate_chatbot_response(...); print(response)
RenderAndPrint ==
    /\ pc = "generate_chatbot_response"
    /\ LET r == generate_chatbot_response(ingredients_with_quantities,
                                          nutrition_data, totals,
                                          health_assessment)
       IN IF r.exc # "none"
          THEN /\ Fail("generate_chatbot_response", r.exc)
               /\ UNCHANGED <<stdout, trace>>
          ELSE /\ stdout' = Append(stdout, r.ret)
               /\ pc' = "done"
               /\ trace' = trace \o <<"generate_chatbot_response", "print">>
               /\ UNCHANGED failure
    /\ UNCHANGED <<model, image_path, ingredients_with_quantities,
                   nutrition_data, idx, data, totals, health_assessment,
                   requests, replies, estimated, call_args, call_ret>>

Next ==
    \/ LoadModel
    \/ ReadImagePath
    \/ AnalyzeImage
    \/ GetNutritionData
    \/ FallbackAndAppend
    \/ CalculateTotals
    \/ AssessHealth
    \/ RenderAndPrint

Spec == Init /\ [][Next]_vars

(***************************************************************************)
(* Direct calls of the pure functions, on inputs drawn from bounded sets   *)
(***************************************************************************)
RecA == Record(PyInt(250), PyInt(30), PyInt(8), PyInt(5))
RecB == Record(PyInt(50), PyInt(4), PyInt(0), PyInt(10))
RecC == Record(PyInt(120), PyInt(0), PyInt(14), PyInt(0))
\* float records: the largest odd float, and two small ones
FloatRecord(n) == Record(PyFloat(n), PyFloat(n), PyFloat(n), PyFloat(n))
FloatRecords == {FloatRecord(Pow2(Prec) - 1), FloatRecord(2), FloatRecord(1)}
IntRecords == {RecA, RecB, RecC}

ListsOf(S, n) == UNION { [1..k -> S] : k \in 0..n }

Prefix(seq, k) == SubSeq(seq, 1, Min(k, Len(seq)))

SuggestionLists ==
    { << >>,
      <<"Use grilled tofu instead of chicken">>,
      <<"Use grilled tofu instead of chicken", "Reduce olive oil to 1 tsp">> }

TotalsCalls ==
    { [fn |-> "calculate_totals", nutrition_data_list |-> l] :
        l \in ListsOf(IntRecords \cup FloatRecords \cup {None}, MaxLen) }

\* the nutrition data is aligned with the mapping, and the totals are those
\* calculate_totals gives for it, as in main
RenderCalls ==
    { [fn |-> "generate_chatbot_response",
       ingredients |-> Prefix(Ingredients, Len(l)),
       nutrition_data |-> l,
       totals |-> calculate_totals(l).ret,
       health_assessment |-> [is_healthy |-> h, suggestions |-> g]] :
        l \in ListsOf(IntRecords, Min(MaxLen, Len(Ingredients))),
        h \in BOOLEAN, g \in SuggestionLists }

UnitInit ==
    /\ pc = "load_vision_model"
    /\ model = None
    /\ image_path = ""
    /\ ingredients_with_quantities = << >>
    /\ nutrition_data = << >>
    /\ idx = 0
    /\ data = None
    /\ totals = ZeroTotals
    /\ health_assessment = [is_healthy |-> TRUE, suggestions |-> << >>]
    /\ stdout = << >>
    /\ failure = NoFailure
    /\ requests = << >>
    /\ replies = << >>
    /\ estimated = << >>
    /\ trace = << >>
    /\ call_args \in TotalsCalls \cup RenderCalls
    /\ call_ret = NoCall

CallCalculateTotals ==
    /\ call_args.fn = "calculate_totals"
    /\ call_ret = NoCall
    /\ call_ret' = [fn |-> "calculate_totals",
                    r |-> calculate_totals(call_args.nutrition_data_list)]
    /\ UNCHANGED <<main_vars, call_args>>

CallGenerateChatbotResponse ==
    /\ call_args.fn = "generate_chatbot_response"
    /\ call_ret = NoCall
    /\ call_ret' = [fn |-> "generate_chatbot_response",
                    r |-> generate_chatbot_response(
                              call_args.ingredients, call_args.nutrition_data,
                              call_args.totals, call_args.health_assessment)]
    /\ UNCHANGED <<main_vars, call_args>>

UnitNext ==
    \/ CallCalculateTotals
    \/ CallGenerateChatbotResponse

UnitSpec == UnitInit /\ [][UnitNext]_vars

(***************************************************************************)
(* Claims about calculate_totals and generate_chatbot_response (UnitSpec)  *)
(***************************************************************************)
IsRecord(x) == x.kind = "dict" /\ DOMAIN x.d = Fields
HasIntFields(x) == \A k \in Fields : x.d[k].t = "int"
NonNull(x) == x # None

\* the mathematical sum of field k over the records of lst
RECURSIVE ExactSum(_, _)
ExactSum(lst, k) ==
    IF Len(lst) = 0 THEN 0
    ELSE ExactSum(SubSeq(lst, 1, Len(lst) - 1), k) + lst[Len(lst)].d[k].v

Reorderings(n) ==
    { p \in [1..n -> 1..n] : \A i, j \in 1..n : p[i] = p[j] => i = j }
Permuted(lst, p) == [i \in 1..Len(lst) |-> lst[p[i]]]

TotalsCalled == call_ret.fn = "calculate_totals"
ArgList == call_args.nutrition_data_list
AllRecords(lst) == \A i \in 1..Len(lst) : IsRecord(lst[i])
AllIntRecords(lst) ==
    \A i \in 1..Len(lst) : IsRecord(lst[i]) /\ HasIntFields(lst[i])

SpecExample == <<RecA, RecB, RecC>>
SpecExampleTotals ==
    [calories |-> PyInt(420), protein_g |-> PyInt(34), fat_g |-> PyInt(22),
     carbs_g |-> PyInt(15)]

\* C1 as stated: for every sequence of Nutrition Records calculate_totals
\* returns, in each field, the sum of that field over the records (0 for the
\* empty sequence), and the spec's three records give 420, 34, 22, 15
C1_TotalsAreExactSums ==
    (TotalsCalled /\ AllRecords(ArgList)) =>
        /\ call_ret.r.exc = "none"
        /\ \A k \in Fields : call_ret.r.ret[k].v = ExactSum(ArgList, k)
        /\ ArgList = SpecExample => call_ret.r.ret = SpecExampleTotals

\* C1 amended: the same for sequences of records whose fields are integers
C1_IntTotalsAreExactSums ==
    (TotalsCalled /\ AllIntRecords(ArgList)) =>
        /\ call_ret.r.exc = "none"
        /\ \A k \in Fields : call_ret.r.ret[k] = PyInt(ExactSum(ArgList, k))
        /\ ArgList = SpecExample => call_ret.r.ret = SpecExampleTotals

C1_Witness ==
    /\ TotalsCalled
    /\ ArgList = SpecExample
    /\ call_ret.r = Returns(SpecExampleTotals)

\* C3: for every sequence with null entries at any positions calculate_totals
\* completes without failure and returns what it returns for the sequence
\* with the null entries removed
C3_NullEntriesSkipped ==
    TotalsCalled =>
        /\ call_ret.r.exc = "none"
        /\ call_ret.r = calculate_totals(SelectSeq(ArgList, NonNull))

C3_Witness ==
    /\ TotalsCalled
    /\ \E i, j \in 1..Len(ArgList) :
         /\ i < j
         /\ ArgList[i] = None
         /\ IsRecord(ArgList[j])
    /\ call_ret.r.ret # ZeroTotals

\* C4 as stated: for every sequence of Nutrition Records and every
\* permutation of it calculate_totals returns the same Totals
C4_OrderIndependent ==
    (TotalsCalled /\ AllRecords(ArgList)) =>
        \A p \in Reorderings(Len(ArgList)) :
            calculate_totals(Permuted(ArgList, p)) = call_ret.r

\* C4 amended: the same for sequences of records whose fields are integers
C4_IntOrderIndependent ==
    (TotalsCalled /\ AllIntRecords(ArgList)) =>
        \A p \in Reorderings(Len(ArgList)) :
            calculate_totals(Permuted(ArgList, p)) = call_ret.r

C4_Witness ==
    /\ TotalsCalled
    /\ AllIntRecords(ArgList)
    /\ Len(ArgList) >= 3
    /\ \A i, j \in 1..Len(ArgList) : ArgList[i] = ArgList[j] => i = j
    /\ call_ret.r.exc = "none"

Contains(text, fragment) == \E i \in 1..Len(text) : text[i] = fragment

\* C5: when is_healthy is false generate_chatbot_response returns a report
\* that contains "unhealthy" and the text of every suggestion, also for a
\* non-empty ingredient mapping
C5_UnhealthyReport ==
    (/\ call_ret.fn = "generate_chatbot_response"
     /\ ~call_args.health_assessment.is_healthy) =>
        /\ call_ret.r.exc = "none"
        /\ Contains(call_ret.r.ret, "unhealthy")
        /\ \A i \in 1..Len(call_args.health_assessment.suggestions) :
             Contains(call_ret.r.ret, call_args.health_assessment.suggestions[i])

(***************************************************************************)
(* Claims about the resolver and main (Spec)                               *)
(***************************************************************************)
\* the ingredients whose resolution is complete
Resolved == 1..Len(nutrition_data)
Estimated(i) == \E j \in 1..Len(estimated) : estimated[j] = i
HasFields(x) == x.kind = "dict" /\ Fields \subseteq DOMAIN x.d
EstimateFor(i) ==
    estimate_macronutrients_with_vision_model(
        model, Ingredients[i][1], Ingredients[i][2])

\* C2: for every ingredient processed the estimator is invoked if and only
\* if the lookup status is not 200, and when the status is not 200 the record
\* stored is the estimator's output, never null
C2_FallbackIffNot200 ==
    \A i \in Resolved :
        /\ Estimated(i) <=> replies[i].status_code # 200
        /\ replies[i].status_code # 200 =>
             /\ nutrition_data[i] = EstimateFor(i)
             /\ nutrition_data[i] # None

\* C6: when the service answers 200 for an ingredient the value resolved for
\* it has the four fields of a Nutrition Record, and the aggregation that
\* follows does not fail
C6_SuccessYieldsRecord ==
    /\ \A i \in Resolved :
         replies[i].status_code = 200 => HasFields(nutrition_data[i])
    /\ failure.step # "calculate_totals"

RECURSIVE Repeat(_, _)
Repeat(seq, n) == IF n = 0 THEN << >> ELSE seq \o Repeat(seq, n - 1)

\* the steps of a complete run, in order
ExpectedTrace ==
    <<"load_vision_model", "input", "analyze_image">>
    \o Repeat(<<"get_nutrition_data", "append">>, Len(Ingredients))
    \o <<"calculate_totals", "assess_healthiness_and_alternatives",
         "generate_chatbot_response", "print">>

IsPrefix(a, b) == Len(a) <= Len(b) /\ a = SubSeq(b, 1, Len(a))

\* failures that come from outside the program: the model file, the image,
\* the forward pass, the network, the body of a response
ExternalFailureSteps ==
    {"load_vision_model", "preprocess_image", "analyze_image",
     "get_nutrition_data", "calculate_totals"}

\* C7: the steps of a run occur in the order load, preprocess and recognise,
\* one resolution per ingredient in the mapping's order, aggregate, assess,
\* render, print, each once; a run ends either because one of its steps
\* failed on its input or with the report printed once
C7_RunPrintsReport ==
    /\ IsPrefix(trace, ExpectedTrace)
    /\ \A i \in 1..Len(requests) : requests[i].pos = i
    /\ pc = "terminated" => failure.step \in ExternalFailureSteps
    /\ pc = "done" => trace = ExpectedTrace /\ Len(stdout) = 1

\* C8: one request per ingredient whatever the status; a non-200 response
\* never ends the run in an error state: the estimator's record is stored for
\* that ingredient and the loop goes on to the next one
C8_OneRequestNoRetry ==
    /\ Len(replies) = Len(requests)
    /\ \A i \in 1..Len(requests) :
         /\ requests[i].pos = i
         /\ requests[i].query = Query(Ingredients[i][1], Ingredients[i][2])
    /\ Len(requests) <= Len(Ingredients)
    /\ pc \in {"get_nutrition_data", "calculate_totals"} =>
         Len(requests) = idx - 1
    /\ pc = "fallback" => Len(requests) = idx
    /\ pc \in {"calculate_totals", "assess_healthiness_and_alternatives",
               "generate_chatbot_response", "done"} =>
         Len(requests) = Len(Ingredients)
    /\ \A i \in 1..Len(replies) :
         (replies[i].sent /\ replies[i].status_code # 200) =>
            /\ ~(failure.step = "get_nutrition_data" /\ Len(replies) = i)
            /\ i \in Resolved \/ (pc = "fallback" /\ idx = i)
            /\ i \in Resolved =>
                 Estimated(i) /\ nutrition_data[i] = EstimateFor(i)

C8_Witness ==
    /\ pc = "calculate_totals"
    /\ replies[1].status_code = 500
    /\ replies[2].status_code = 200
    /\ replies[3].status_code = 404
    /\ Len(requests) = 3

\* C9: at the rendering step nutrition_data has one entry per ingredient of
\* the mapping, in the mapping's order, none null: the i-th entry is what was
\* resolved, from the service or the fallback, for the i-th ingredient
C9_AlignedAtRender ==
    pc = "generate_chatbot_response" =>
        /\ Len(nutrition_data) = Len(ingredients_with_quantities)
        /\ \A i \in 1..Len(nutrition_data) :
             /\ nutrition_data[i] # None
             /\ requests[i].query = Query(ingredients_with_quantities[i][1],
                                          ingredients_with_quantities[i][2])
             /\ nutrition_data[i] =
                  IF Truthy(get_nutrition_data(replies[i]).ret)
                  THEN get_nutrition_data(replies[i]).ret
                  ELSE EstimateFor(i)

C9_Witness ==
    /\ pc = "generate_chatbot_response"
    /\ Estimated(2)
    /\ ~Estimated(1)
    /\ ~Estimated(3)
    /\ nutrition_data[1] # nutrition_data[3]

\* C10: a failure in any step ends the run: no later step is executed and
\* nothing is printed; a failed model load happens before the image path is
\* read and before any lookup request is sent
C10_FailureTerminates ==
    /\ failure # NoFailure =>
         /\ pc = "terminated"
         /\ ~ENABLED Next
         /\ stdout = << >>
         /\ IsPrefix(trace, ExpectedTrace)
         /\ Len(trace) < Len(ExpectedTrace) - 1
    /\ pc = "terminated" => failure # NoFailure
    /\ failure.step = "load_vision_model" =>
         /\ trace = << >>
         /\ image_path = ""
         /\ requests = << >>
    /\ failure.step \in {"preprocess_image", "analyze_image"} =>
         requests = << >>
    /\ failure.step = "get_nutrition_data" =>
         /\ Len(nutrition_data) = Len(requests) - 1
         /\ totals = ZeroTotals

C10_Witness ==
    /\ failure = [step |-> "get_nutrition_data", exc |-> "JSONDecodeError"]
    /\ Len(requests) = 2
    /\ replies[1].status_code = 404

====
